---- MODULE Spec2Model ----
(***************************************************************************)
(* A model of the mmult micro-benchmark (src/src/mmult): the two matrix    *)
(* multiplication kernels impl_ref and impl_mmult_opt, the dimension       *)
(* parsing, allocation and dispatch of main, and main's statistics loop    *)
(* (iterative outlier rejection over the run times).                       *)
(*                                                                         *)
(* Three specifications share the module:                                  *)
(*   SpecStats   the statistics loop of main (main.c:327-402)              *)
(*   SpecKernel  impl_ref, the timed loop over impl_mmult_opt and the      *)
(*               verification, on small buffers                            *)
(*   SpecArgs    the dimension options, the buffer sizes and the dispatch  *)
(*               of main, with the data-set constants of main.c            *)
(***************************************************************************)
EXTENDS Integers, Sequences, FiniteSets, TLC

VARIABLES
    \* ---- statistics loop (main.c:327-402)
    spc,            \* position in the statistics loop
    num_runs,       \* number of samples (nruns)
    nstd,           \* rejection multiplier (nstdevs)
    runtimes,       \* [0..num_runs-1 -> ns]
    runtimes_mask,  \* [0..num_runs-1 -> BOOLEAN]
    min, max,       \* uint64_t min = -1, max = 0
    avg, avg_n,
    std, std_n,
    n_msked, n_stats,
    printed,        \* the per-pass lines written by printf (main.c:395-398)
    \* ---- kernels, timed loop and verification (ref.c, opt.c, main.c:257-324)
    kpc,            \* position in main / in impl_mmult_opt
    rowsA, colsA, colsB,   \* args.rowsA, args.colsA, args.colsB
    size,           \* args.size = data_size
    input_a, input_b,      \* src1, src2
    output,         \* dest: data_size cells and the guard cells
    ref,            \* ref:  data_size cells and the guard cells
    junk,           \* the pattern of memory the program never wrote
    run,            \* i of the timed loop
    ii, jj, kk,     \* tile origins of impl_mmult_opt
    i_idx, j_idx,   \* i and j of impl_mmult_opt
    acc,            \* the offsets the last step of impl_mmult_opt touched
    match, guard,   \* results of the verification
    \* ---- command line, data sizes and dispatch (main.c:61-194, 257-309)
    apc,            \* position in main
    argv, argi,     \* the command line and i of the option loop
    mA_rows, mAB_cols_rows, mB_cols,
    nruns,
    impl, impl_str, help,
    calls           \* the kernel invocations made so far, with their args_t

svars == <<spc, num_runs, nstd, runtimes, runtimes_mask, min, max,
           avg, avg_n, std, std_n, n_msked, n_stats, printed>>

kvars == <<kpc, rowsA, colsA, colsB, size, input_a, input_b, output, ref,
           junk, run, ii, jj, kk, i_idx, j_idx, acc, match, guard>>

avars == <<apc, argv, argi, mA_rows, mAB_cols_rows, mB_cols, nruns,
           impl, impl_str, help, calls>>

vars == <<svars, kvars, avars>>

(***************************************************************************)
(* Bounds of the model.                                                    *)
(***************************************************************************)
\* largest number of samples enumerated exhaustively
MaxRuns == 4
\* largest run time (ns) enumerated exhaustively
MaxTime == 4
\* largest rejection multiplier
MaxStd == 3
\* matrices of at most this many cells are enumerated over all contents
EnumCells == 2
\* larger matrices are filled with the patterns 0 .. MaxSeed
MaxSeed == 1
\* data_size is rowsA * colsB, or this much below / above it
MaxShort == 1
MaxSpare == 1
\* invocations in the timed loop of the kernel model
MaxInvocations == 2

(***************************************************************************)
(* Statistics loop of main.                                                *)
(***************************************************************************)

\* The sample set of the spec's rejection scenario, in run order.
ExampleRuntimes == [i \in 0..5 |-> CASE i = 0 -> 100 [] i = 1 -> 101 [] i = 2 -> 99
                                     [] i = 3 -> 102 [] i = 4 -> 100 [] i = 5 -> 9]

\* A three-pass sample set (one sample rejected in each of two passes).
CascadeRuntimes == [i \in 0..7 |-> CASE i = 7 -> 1000 [] i = 6 -> 60 [] OTHER -> 10]

Idx == 0 .. (num_runs - 1)

Active == {i \in Idx : runtimes_mask[i]}

RECURSIVE SumOver(_, _)
\* sum of f[i] over the indices in S
SumOver(S, f) ==
    IF S = {} THEN 0
    ELSE LET i == CHOOSE j \in S : TRUE IN f[i] + SumOver(S \ {i}, f)

\* (uint64_t) sqrt(n): the truncated square root, found by bisection between
\* lo (lo * lo <= n) and hi ((hi + 1) * (hi + 1) > n)
RECURSIVE SqrtBetween(_, _, _)
SqrtBetween(n, lo, hi) ==
    IF lo = hi THEN lo
    ELSE LET mid == (lo + hi + 1) \div 2
         IN IF mid * mid <= n THEN SqrtBetween(n, mid, hi)
                              ELSE SqrtBetween(n, lo, mid - 1)

Isqrt(n) == SqrtBetween(n, 0, IF n < 46340 THEN n ELSE 46340)

\* (runtimes[i] - a) * (runtimes[i] - a) in uint64_t: the difference wraps
\* when runtimes[i] < a, and the product of the wrapped difference with
\* itself is the square of the true difference modulo 2^64.
SqDev(x, a) == (x - a) * (x - a)

\* uint64_t min starts at -1, i.e. at UINT64_MAX: every run time is below it
U64Less(x, m) == IF m = -1 THEN TRUE ELSE x < m

RECURSIVE MinOver(_, _)
MinOver(S, m) ==
    IF S = {} THEN m
    ELSE LET i == CHOOSE j \in S : TRUE
         IN MinOver(S \ {i}, IF U64Less(runtimes[i], m) THEN runtimes[i] ELSE m)

RECURSIVE MaxOver(_, _)
MaxOver(S, m) ==
    IF S = {} THEN m
    ELSE LET i == CHOOSE j \in S : TRUE
         IN MaxOver(S \ {i}, IF runtimes[i] > m THEN runtimes[i] ELSE m)

\* mutant: the rejection test with >= in place of >
IsOutlierGe(x) ==
    IF x > avg THEN (x - avg) >= (nstd * std) ELSE (avg - x) >= (nstd * std)

\* main.c:381-391: the rejection test of one active sample
IsOutlier(x) ==
    IF x > avg THEN (x - avg) > (nstd * std) ELSE (avg - x) > (nstd * std)

\* the samples the masking loop (main.c:379-393) turns off in this pass
Rejected == {i \in Active : IsOutlier(runtimes[i])}

\* mutant: n_msked is not incremented in the else branch (main.c:389)
MaskedCountHigh == Cardinality({i \in Rejected : runtimes[i] > avg})

\* main.c:378,384,389: n_msked counts the samples this pass turns off
MaskedCount == Cardinality(Rejected)

\* mutant: the loop goes on after a pass that masked nothing
LoopAgainAlways(m) == m >= 0

\* main.c:399: while (n_msked > 0)
LoopAgain(m) == m > 0

\* quotients a build can produce for an integer division by zero that does
\* not trap (the AArch64 udiv instruction yields 0)
DivZeroQuotients == {0}

\* the kernel part of the state while only the statistics are modelled
KernelIdle ==
    /\ kpc = "idle"
    /\ rowsA = 0 /\ colsA = 0 /\ colsB = 0 /\ size = 0
    /\ input_a = << >> /\ input_b = << >> /\ output = << >> /\ ref = << >>
    /\ junk = 0 /\ run = 0
    /\ ii = 0 /\ jj = 0 /\ kk = 0 /\ i_idx = 0 /\ j_idx = 0
    /\ acc = [ra |-> {}, rb |-> {}, w |-> {}]
    /\ match = FALSE /\ guard = FALSE

\* the command-line part of the state while main's later phases are modelled
ArgsIdle ==
    /\ apc = "idle" /\ argv = << >> /\ argi = 0
    /\ mA_rows = 0 /\ mAB_cols_rows = 0 /\ mB_cols = 0 /\ nruns = 0
    /\ impl = "NULL" /\ impl_str = "NULL" /\ help = FALSE
    /\ calls = << >>

StatsInit ==
    /\ nstd \in 0 .. MaxStd
    /\ \/ /\ num_runs \in 1 .. MaxRuns
          /\ runtimes \in [0 .. (num_runs - 1) -> 0 .. MaxTime]
       \/ /\ num_runs = 6
          /\ runtimes = ExampleRuntimes
       \/ /\ num_runs = 8
          /\ runtimes = CascadeRuntimes
    /\ runtimes_mask = [i \in 0 .. (num_runs - 1) |-> TRUE]
    /\ min = -1 /\ max = 0
    /\ avg = 0 /\ avg_n = 0
    /\ std = 0 /\ std_n = 0
    /\ n_msked = 0 /\ n_stats = 0
    /\ printed = << >>
    /\ spc = "sum"
    /\ KernelIdle
    /\ ArgsIdle

\* main.c:344-361: count the pass, then min, max and the sum of the active samples
StatsSum ==
    /\ spc = "sum"
    /\ n_stats' = n_stats + 1
    /\ min' = MinOver(Active, min)
    /\ max' = MaxOver(Active, max)
    /\ avg' = SumOver(Active, runtimes)
    /\ avg_n' = Cardinality(Active)
    /\ spc' = "avg_div"
    /\ UNCHANGED <<num_runs, nstd, runtimes, runtimes_mask, std, std_n, n_msked, printed>>
    /\ UNCHANGED <<kvars, avars>>

\* main.c:362: avg = avg / avg_n
StatsAvgDiv ==
    /\ spc = "avg_div"
    /\ avg_n # 0
    /\ avg' = avg \div avg_n
    /\ spc' = "std_sum"
    /\ UNCHANGED <<num_runs, nstd, runtimes, runtimes_mask, min, max, avg_n,
                   std, std_n, n_msked, n_stats, printed>>
    /\ UNCHANGED <<kvars, avars>>

\* main.c:362 with avg_n = 0: the division is undefined; the process is
\* killed by SIGFPE (x86) or goes on with the build's quotient
StatsAvgDivZero ==
    /\ spc = "avg_div"
    /\ avg_n = 0
    /\ \/ /\ spc' = "sigfpe"
          /\ avg' = avg
       \/ /\ spc' = "std_sum"
          /\ avg' \in DivZeroQuotients
    /\ UNCHANGED <<num_runs, nstd, runtimes, runtimes_mask, min, max, avg_n,
                   std, std_n, n_msked, n_stats, printed>>
    /\ UNCHANGED <<kvars, avars>>

\* main.c:365-374: the sum of the squared deviations of the active samples
StatsStdSum ==
    /\ spc = "std_sum"
    /\ std' = SumOver(Active, [i \in Idx |-> SqDev(runtimes[i], avg)])
    /\ std_n' = Cardinality(Active)
    /\ spc' = "std_div"
    /\ UNCHANGED <<num_runs, nstd, runtimes, runtimes_mask, min, max, avg, avg_n,
                   n_msked, n_stats, printed>>
    /\ UNCHANGED <<kvars, avars>>

\* main.c:375: std = sqrt(std / std_n)
StatsStdDiv ==
    /\ spc = "std_div"
    /\ std_n # 0
    /\ std' = Isqrt(std \div std_n)
    /\ spc' = "mask"
    /\ UNCHANGED <<num_runs, nstd, runtimes, runtimes_mask, min, max, avg, avg_n,
                   std_n, n_msked, n_stats, printed>>
    /\ UNCHANGED <<kvars, avars>>

\* main.c:375 with std_n = 0: undefined as in StatsAvgDivZero
StatsStdDivZero ==
    /\ spc = "std_div"
    /\ std_n = 0
    /\ \/ /\ spc' = "sigfpe"
          /\ std' = std
       \/ /\ spc' = "mask"
          /\ \E q \in DivZeroQuotients : std' = Isqrt(q)
    /\ UNCHANGED <<num_runs, nstd, runtimes, runtimes_mask, min, max, avg, avg_n,
                   std_n, n_msked, n_stats, printed>>
    /\ UNCHANGED <<kvars, avars>>

\* main.c:378-399: mask the outliers, print the pass, test the loop condition
StatsMask ==
    /\ spc = "mask"
    /\ n_msked' = MaskedCount
    /\ runtimes_mask' = [i \in Idx |-> runtimes_mask[i] /\ i \notin Rejected]
    /\ printed' = Append(printed, [std |-> std, avg |-> avg, active |-> avg_n,
                                   masked |-> n_msked'])
    /\ spc' = IF LoopAgain(n_msked') THEN "sum" ELSE "done"
    /\ UNCHANGED <<num_runs, nstd, runtimes, min, max, avg, avg_n, std, std_n, n_stats>>
    /\ UNCHANGED <<kvars, avars>>

StatsNext ==
    \/ StatsSum
    \/ StatsAvgDiv
    \/ StatsAvgDivZero
    \/ StatsStdSum
    \/ StatsStdDiv
    \/ StatsStdDivZero
    \/ StatsMask

SpecStats == StatsInit /\ [][StatsNext]_vars

\* the loop is sequential code: a step that can be taken is taken
LiveStats == SpecStats /\ WF_vars(StatsNext)

(***************************************************************************)
(* Memory cells and arithmetic of the kernels.                             *)
(*                                                                         *)
(* A buffer cell is the 32-bit pattern it holds, written as the int that   *)
(* memcpy reads from it (two's complement, -2^31 .. 2^31-1).  impl_ref     *)
(* computes on these ints; impl_mmult_opt computes on the binary32 values  *)
(* the same patterns encode.  The float operations below are exact IEEE    *)
(* round-to-nearest results on the values the model uses: +0, positive     *)
(* subnormals (pattern t < 2^23 is t * 2^-149) and positive integers below *)
(* 2^24 (every such integer is a binary32 value).                          *)
(***************************************************************************)

Two16 == 2^16

Two23 == 2^23

INT_MAX == (2^30 - 1) * 2 + 1

INT_MIN == -INT_MAX - 1

RECURSIVE Log2Floor(_)
\* the position of the leading 1 bit of n >= 1
Log2Floor(n) == IF n < 2 THEN 0 ELSE 1 + Log2Floor(n \div 2)

\* the binary32 pattern of the integer n, 0 <= n < 2^24
BitsOfInt(n) ==
    IF n = 0 THEN 0
    ELSE LET e == Log2Floor(n)
         IN (127 + e) * Two23 + (n - 2^e) * 2^(23 - e)

\* the integer a pattern written by BitsOfInt encodes
IntOfBits(b) ==
    IF b = 0 THEN 0
    ELSE LET e == (b \div Two23) - 127
         IN (Two23 + (b % Two23)) \div 2^(23 - e)

IsSubnormal(b) == 0 <= b /\ b < Two23

\* the pattern with the sign bit cleared
Magnitude(b) == IF b < 0 THEN b - INT_MIN ELSE b

\* the exponent field is all ones: an infinity or a NaN
IsNanOrInf(b) == Magnitude(b) >= 255 * Two23

\* a finite value of magnitude 2^48 or more (the guard word is one): its ulp
\* is above 2^25, so adding a value below 2^24 leaves it as it is
IsHuge(b) == Magnitude(b) >= (127 + 48) * Two23 /\ ~IsNanOrInf(b)

\* float product a * b (opt.c:60)
FMul(a, b) ==
    CASE a = 0 \/ b = 0 -> 0
      [] IsSubnormal(a) /\ IsSubnormal(b) -> 0          \* underflows to +0
      [] IsSubnormal(a) -> a * IntOfBits(b)              \* t * n subnormal units
      [] IsSubnormal(b) -> b * IntOfBits(a)
      [] OTHER -> BitsOfInt(IntOfBits(a) * IntOfBits(b))

\* float sum a + b (opt.c:60)
FAdd(a, b) ==
    CASE a = 0 -> b
      [] b = 0 -> a
      [] IsHuge(a) -> a               \* b is below half an ulp of a
      [] IsHuge(b) -> b
      [] IsSubnormal(a) /\ IsSubnormal(b) -> a + b
      [] IsSubnormal(a) -> b          \* below half an ulp of b: rounds to b
      [] IsSubnormal(b) -> a
      [] OTHER -> BitsOfInt(IntOfBits(a) + IntOfBits(b))

\* (x * y) mod 2^16 for 0 <= x, y < 2^16, without leaving 32 bits
MulMod16(x, y) ==
    (x * (y % 256) + 256 * ((x * (y \div 256)) % 256)) % Two16

\* the high and low 16 bits of the pattern of int x
Hi16(x) == (x \div Two16) % Two16

Lo16(x) == x % Two16

\* the int whose pattern has the 16-bit halves hi and lo
OfHalves(hi, lo) ==
    IF hi >= Two16 \div 2 THEN (hi - Two16) * Two16 + lo ELSE hi * Two16 + lo

\* the int product truncated to 32 bits (two's complement wrap-around)
WrapMul(a, b) ==
    LET al == Lo16(a)
        ah == Hi16(a)
        bl == Lo16(b)
        bh == Hi16(b)
        t0 == (al % 256) * bl
        t1 == (al \div 256) * bl
        x  == t0 + 256 * (t1 % 256)
        carry == (x \div Two16) + (t1 \div 256)
    IN OfHalves((carry + MulMod16(ah, bl) + MulMod16(al, bh)) % Two16, x % Two16)

\* the int sum truncated to 32 bits
WrapAdd(a, b) ==
    LET lo == Lo16(a) + Lo16(b)
    IN OfHalves((Hi16(a) + Hi16(b) + (lo \div Two16)) % Two16, lo % Two16)

AbsInt(x) == IF x < 0 THEN -x ELSE x

\* whether the int product a * b is outside int (signed overflow: undefined)
MulOverflows(a, b) ==
    CASE a = 0 \/ b = 0 -> FALSE
      [] a = INT_MIN -> b # 1
      [] b = INT_MIN -> a # 1
      [] AbsInt(b) <= INT_MAX \div AbsInt(a) -> FALSE
      [] OTHER -> ~ /\ (a < 0) # (b < 0)          \* all but a * b = INT_MIN
                    /\ INT_MAX % AbsInt(a) = AbsInt(a) - 1
                    /\ AbsInt(b) = (INT_MAX \div AbsInt(a)) + 1

\* whether the int sum a + b is outside int
AddOverflows(a, b) ==
    \/ a > 0 /\ b > 0 /\ a > INT_MAX - b
    \/ a < 0 /\ b < 0 /\ a < INT_MIN - b


(***************************************************************************)
(* The kernels, the timed loop and the verification.                       *)
(***************************************************************************)

\* opt.c:51
BLOCK_SIZE == 16

\* main.c:259-260: data_size + 4
GuardCells == 4

\* main.c:262: 0xdeadcafe, as the int a cell holding it reads as
GuardWord == -559035650

\* the dimensions the kernel model is run on: below, at and above one tile
DimSet == {1, 2, BLOCK_SIZE, BLOCK_SIZE + 1}

\* the cell contents of the inputs: +0, the two smallest subnormals' unit,
\* 1.0f and 2.0f
InputBits == {0, 1, BitsOfInt(1), BitsOfInt(2)}

PatternList == <<BitsOfInt(1), 1, BitsOfInt(2), 0, BitsOfInt(1)>>

\* a buffer of n cells filled with pattern number s
Fill(n, s) == [o \in 0 .. (n - 1) |-> PatternList[((o + s * (o \div 3)) % 5) + 1]]

\* the contents __ALLOC_INIT_DATA may give a matrix of n cells
Matrices(n) ==
    IF n <= EnumCells THEN [0 .. (n - 1) -> InputBits]
    ELSE {Fill(n, s) : s \in 0 .. MaxSeed}

\* opt.c:23-25
Min(a, b) == IF a < b THEN a ELSE b

\* reading cell o of a buffer; a cell outside the buffer holds whatever the
\* neighbouring memory holds
Load(buf, o) == IF o \in DOMAIN buf THEN buf[o] ELSE junk

\* writing cell o of a buffer; a store outside the buffer does not change it
Store(buf, o, v) == IF o \in DOMAIN buf THEN [buf EXCEPT ![o] = v] ELSE buf

\* ref.c:39-49: int sum of the first n products of row r of A and column c
\* of B, with the overflows met on the way
RECURSIVE RefSum(_, _, _)
RefSum(r, c, n) ==
    IF n = 0 THEN [v |-> 0, ovf |-> FALSE]
    ELSE LET p == RefSum(r, c, n - 1)
             a == Load(input_a, r * colsA + (n - 1))
             b == Load(input_b, (n - 1) * colsB + c)
             m == WrapMul(a, b)
         IN [v |-> WrapAdd(p.v, m),
             ovf |-> p.ovf \/ MulOverflows(a, b) \/ AddOverflows(p.v, m)]

\* ref.c:37-53: the cells impl_ref stores
RefCells == {r * colsB + c : r \in 0 .. (rowsA - 1), c \in 0 .. (colsB - 1)}

RefOverflows ==
    {o \in RefCells : RefSum(o \div colsB, o % colsB, colsA).ovf} # {}

\* opt.c:58: float val = dest[i * colsB + j]
TileStart(off) == Load(output, off)

\* mutant: the initialisation loop leaves the cell as it is
ZeroedCellKeep(off) == Load(output, off)

\* opt.c:46: dest[i * colsB + j] = 0.0f
ZeroedCell(off) == 0

\* opt.c:59-61: val += matA[i * colsA + k] * matB[k * colsB + j], k = k0 .. kend-1
RECURSIVE TileSum(_, _, _)
TileSum(val, k, kend) ==
    IF k >= kend THEN val
    ELSE TileSum(FAdd(val, FMul(Load(input_a, i_idx * colsA + k),
                                Load(input_b, k * colsB + j_idx))),
                 k + 1, kend)

\* where control is in impl_mmult_opt, as a record of the loop variables
Pos(pc, a, b, c, d, e) == [pc |-> pc, ii |-> a, jj |-> b, kk |-> c, i |-> d, j |-> e]

\* opt.c:53-57,64-66: the five nested loop heads of the tiled product, from
\* the head at the given level (1 = ii, 2 = jj, 3 = kk, 4 = i, 5 = j)
RECURSIVE TilePos(_, _, _, _, _, _)
TilePos(level, a, b, c, d, e) ==
    CASE level = 1 -> IF a < rowsA THEN TilePos(2, a, 0, c, d, e)
                      ELSE Pos("opt_ret", a, b, c, d, e)
      [] level = 2 -> IF b < colsB THEN TilePos(3, a, b, 0, d, e)
                      ELSE TilePos(1, a + BLOCK_SIZE, b, c, d, e)
      [] level = 3 -> IF c < colsA THEN TilePos(4, a, b, c, a, e)
                      ELSE TilePos(2, a, b + BLOCK_SIZE, c, d, e)
      [] level = 4 -> IF d < Min(a + BLOCK_SIZE, rowsA) THEN TilePos(5, a, b, c, d, b)
                      ELSE TilePos(3, a, b, c + BLOCK_SIZE, d, e)
      [] level = 5 -> IF e < Min(b + BLOCK_SIZE, colsB) THEN Pos("opt_tile", a, b, c, d, e)
                      ELSE TilePos(4, a, b, c, d + 1, e)

\* opt.c:44-48: the two loop heads of the initialisation (1 = i, 2 = j)
RECURSIVE ZeroPos(_, _, _)
ZeroPos(level, d, e) ==
    CASE level = 1 -> IF d < rowsA THEN ZeroPos(2, d, 0)
                      ELSE TilePos(1, 0, 0, 0, 0, 0)
      [] level = 2 -> IF e < colsB THEN Pos("opt_zero", 0, 0, 0, d, e)
                      ELSE ZeroPos(1, d + 1, e)

GoTo(p) ==
    /\ kpc' = p.pc
    /\ ii' = p.ii /\ jj' = p.jj /\ kk' = p.kk
    /\ i_idx' = p.i /\ j_idx' = p.j

NoAccess == [ra |-> {}, rb |-> {}, w |-> {}]

\* the statistics part of the state while the kernels are modelled
StatsIdle ==
    /\ spc = "idle" /\ nstd = 0
    /\ runtimes = << >> /\ runtimes_mask = << >>
    /\ min = -1 /\ max = 0 /\ avg = 0 /\ avg_n = 0 /\ std = 0 /\ std_n = 0
    /\ n_msked = 0 /\ n_stats = 0 /\ printed = << >>

\* main.c:257-265: the buffers, the guards, and the arguments (main.c:271-298)
KernelInit ==
    /\ StatsIdle
    /\ ArgsIdle
    /\ num_runs = MaxInvocations
    /\ rowsA \in DimSet /\ colsA \in DimSet /\ colsB \in DimSet
    /\ size \in {n \in {rowsA * colsB - MaxShort, rowsA * colsB, rowsA * colsB + MaxSpare} :
                    n >= 0}
    /\ junk \in (IF rowsA * colsB <= EnumCells THEN {1, BitsOfInt(3)} ELSE {BitsOfInt(3)})
    /\ input_a \in Matrices(rowsA * colsA)
    /\ input_b \in Matrices(colsA * colsB)
    /\ output = [o \in 0 .. (size + GuardCells - 1) |->
                    IF o < size THEN junk ELSE GuardWord]
    /\ ref = [o \in 0 .. (size + GuardCells - 1) |->
                    IF o < size THEN PatternList[(o % 5) + 1] ELSE GuardWord]
    /\ run = 0
    /\ ii = 0 /\ jj = 0 /\ kk = 0 /\ i_idx = 0 /\ j_idx = 0
    /\ acc = NoAccess
    /\ match = FALSE /\ guard = FALSE
    /\ kpc = "ref"

KernelArgsFixed == <<rowsA, colsA, colsB, size, input_a, input_b, junk>>

\* main.c:283 and ref.c:23-56: impl_ref fills ref; where an int product or
\* sum overflows (undefined) this is the build that wraps around
RunRef ==
    /\ kpc = "ref"
    /\ kpc' = "loop"
    /\ ref' = [o \in DOMAIN ref |->
                  IF o \in RefCells THEN RefSum(o \div colsB, o % colsB, colsA).v
                  ELSE ref[o]]
    /\ UNCHANGED <<output, run, ii, jj, kk, i_idx, j_idx, acc, match, guard>>
    /\ UNCHANGED KernelArgsFixed
    /\ UNCHANGED <<svars, avars>>

\* ref.c:48 in a build that traps on signed overflow: the process is killed
RunRefTrap ==
    /\ kpc = "ref"
    /\ RefOverflows
    /\ kpc' = "aborted"
    /\ UNCHANGED <<output, ref, run, ii, jj, kk, i_idx, j_idx, acc, match, guard>>
    /\ UNCHANGED KernelArgsFixed
    /\ UNCHANGED <<svars, avars>>

\* main.c:304-306 and opt.c:30-43: the timed loop calls the kernel
OptEnter ==
    /\ kpc = "loop"
    /\ run < num_runs
    /\ GoTo(ZeroPos(1, 0, 0))
    /\ acc' = NoAccess
    /\ UNCHANGED <<output, ref, run, match, guard>>
    /\ UNCHANGED KernelArgsFixed
    /\ UNCHANGED <<svars, avars>>

\* opt.c:44-48: one cell of the initialisation
OptZero ==
    /\ kpc = "opt_zero"
    /\ LET off == i_idx * colsB + j_idx
       IN /\ output' = Store(output, off, ZeroedCell(off))
          /\ acc' = [ra |-> {}, rb |-> {}, w |-> {off}]
    /\ GoTo(ZeroPos(2, i_idx, j_idx + 1))
    /\ UNCHANGED <<ref, run, match, guard>>
    /\ UNCHANGED KernelArgsFixed
    /\ UNCHANGED <<svars, avars>>

\* opt.c:57-62: one output cell of one tile: load, accumulate over the k of
\* the tile, write back
OptTile ==
    /\ kpc = "opt_tile"
    /\ LET off  == i_idx * colsB + j_idx
           kend == Min(kk + BLOCK_SIZE, colsA)
       IN /\ output' = Store(output, off, TileSum(TileStart(off), kk, kend))
          /\ acc' = [ra |-> {i_idx * colsA + k : k \in kk .. (kend - 1)},
                     rb |-> {k * colsB + j_idx : k \in kk .. (kend - 1)},
                     w  |-> {off}]
    /\ GoTo(TilePos(5, ii, jj, kk, i_idx, j_idx + 1))
    /\ UNCHANGED <<ref, run, match, guard>>
    /\ UNCHANGED KernelArgsFixed
    /\ UNCHANGED <<svars, avars>>

\* opt.c:69 and main.c:304-309: the kernel returns, the loop counts the run
OptReturn ==
    /\ kpc = "opt_ret"
    /\ run' = run + 1
    /\ kpc' = "loop"
    /\ UNCHANGED <<output, ref, ii, jj, kk, i_idx, j_idx, acc, match, guard>>
    /\ UNCHANGED KernelArgsFixed
    /\ UNCHANGED <<svars, avars>>

\* |r - d| <= 1e-5f for the float values of patterns r and d, where d is +0,
\* a subnormal, a positive integer or the guard word
TolBits == 110 * Two23 + 2606508

WithinTol(r, d) ==
    CASE IsNanOrInf(r) \/ IsNanOrInf(d) -> FALSE
      [] r = d -> TRUE
      [] IsSubnormal(d) -> Magnitude(r) <= TolBits
      [] IsHuge(d) \/ d < 0 -> FALSE
      [] r < 0 -> FALSE
      [] OTHER ->
           LET n == IntOfBits(d)
               e == Log2Floor(n)
               above == 83 \div 2^e
               below == IF n = 2^e THEN 167 \div 2^e ELSE 83 \div 2^e
           IN (0 - below) <= r - d /\ r - d <= above

\* main.c:314: __CHECK_FLOAT_MATCH(ref, dest, data_size, 1e-5f)
CheckFloatMatch == \A o \in 0 .. (size - 1) : WithinTol(ref[o], output[o])

\* main.c:315: __CHECK_FLOAT_GUARD(dest, data_size)
CheckFloatGuard == \A g \in 0 .. (GuardCells - 1) : output[size + g] = GuardWord

\* main.c:312-324: the verification after the timed loop
Verify ==
    /\ kpc = "loop"
    /\ run >= num_runs
    /\ match' = CheckFloatMatch
    /\ guard' = CheckFloatGuard
    /\ kpc' = "done"
    /\ UNCHANGED <<output, ref, run, ii, jj, kk, i_idx, j_idx, acc>>
    /\ UNCHANGED KernelArgsFixed
    /\ UNCHANGED <<svars, avars>>

KernelNext ==
    \/ RunRef
    \/ RunRefTrap
    \/ OptEnter
    \/ OptZero
    \/ OptTile
    \/ OptReturn
    \/ Verify

SpecKernel == KernelInit /\ [][KernelNext]_vars

(***************************************************************************)
(* Command line, data sizes and dispatch of main.  A token of the command  *)
(* line is the sequence of its characters.                                 *)
(***************************************************************************)

\* main.c:57-59
A_ROW == 2500
A_COL_B_ROW == 3000
B_COL == 2100
\* main.c:70
DefaultRuns == 100
\* sizeof(float), main.c:257-258
SizeofFloat == 4

\* main.c:77-79
matrix_a_data_size == A_ROW * A_COL_B_ROW
matrix_b_data_size == A_COL_B_ROW * B_COL
data_size == A_ROW * B_COL

\* main.c:257-260: the number of elements requested for each buffer
Src1Cells == matrix_a_data_size * SizeofFloat
Src2Cells == matrix_b_data_size * SizeofFloat
DestCells == data_size + GuardCells

\* the option names compared by strcmp (main.c:93-158)
OptImpl == {<<"-", "i">>, <<"-", "-", "i", "m", "p", "l">>}
OptRowsA == {<<"-", "a", "r">>, <<"-", "-", "a", "r", "o", "w", "s">>}
OptShared == {<<"-", "a", "c", "b", "r">>,
              <<"-", "-", "a", "c", "o", "l", "s", "n", "b", "r", "o", "w", "s">>}
OptColsB == {<<"-", "b", "c">>, <<"-", "-", "b", "c", "o", "l", "s">>}
OptRuns == {<<"-", "-", "n", "r", "u", "n", "s">>}
OptOther == {<<"-", "-", "n", "s", "t", "d", "e", "v", "s">>,
             <<"-", "n">>, <<"-", "-", "n", "t", "h", "r", "e", "a", "d", "s">>,
             <<"-", "c">>, <<"-", "-", "c", "p", "u">>}
OptHelp == {<<"-", "h">>, <<"-", "-", "h", "e", "l", "p">>}
OptWithValue == OptImpl \cup OptRowsA \cup OptShared \cup OptColsB \cup OptRuns \cup OptOther

\* main.c:95-97: the implementation names
NameNaive == <<"n", "a", "i", "v", "e">>
NameOpt == <<"o", "p", "t">>

\* the value of a decimal digit, -1 for any other character
DigitVal(c) ==
    CASE c = "0" -> 0 [] c = "1" -> 1 [] c = "2" -> 2 [] c = "3" -> 3 [] c = "4" -> 4
      [] c = "5" -> 5 [] c = "6" -> 6 [] c = "7" -> 7 [] c = "8" -> 8 [] c = "9" -> 9
      [] OTHER -> -1

\* the digits of s from position k on, up to the first character that is no digit
RECURSIVE AtoiDigits(_, _, _)
AtoiDigits(s, k, v) ==
    IF k > Len(s) \/ DigitVal(s[k]) < 0 THEN v
    ELSE AtoiDigits(s, k + 1, v * 10 + DigitVal(s[k]))

\* atoi (main.c:109, 116, 123, 130): leading blanks, an optional sign, then digits
RECURSIVE Atoi(_)
Atoi(s) ==
    IF s = << >> THEN 0
    ELSE IF s[1] = " " THEN Atoi(Tail(s))
    ELSE IF s[1] = "-" THEN -AtoiDigits(s, 2, 0)
    ELSE IF s[1] = "+" THEN AtoiDigits(s, 2, 0)
    ELSE AtoiDigits(s, 1, 0)

\* the command lines explored: an implementation, each dimension option absent
\* or present with one of DimTexts, and one of the endings
ImplArgs == {<< >>,
             <<<<"-", "i">>, NameOpt>>,
             <<<<"-", "-", "i", "m", "p", "l">>, NameNaive>>,
             <<<<"-", "i">>, <<"r", "e", "f">>>>}
DimTexts == {<<"1">>, <<"1", "7", "x">>, <<"2", "5", "0", "1">>, <<"3", "0", "0", "1">>,
             <<"-", "5">>, <<"0">>}
DimArgs(opt) == {<< >>} \cup {<<opt, t>> : t \in DimTexts}
EndArgs == {<< >>,
            <<<<"-", "h">>>>,
            <<<<"-", "-", "h", "e", "l", "p">>>>,
            <<<<"-", "a", "r">>>>,
            <<<<"m", "m", "u", "l", "t">>>>,
            <<<<"-", "-", "n", "r", "u", "n", "s">>, <<"1">>>>,
            <<<<"-", "-", "n", "s", "t", "d", "e", "v", "s">>, <<"2">>>>}
CommandLines ==
    {i \o r \o s \o c \o e :
        i \in ImplArgs,
        r \in DimArgs(<<"-", "a", "r">>),
        s \in DimArgs(<<"-", "-", "a", "c", "o", "l", "s", "n", "b", "r", "o", "w", "s">>),
        c \in DimArgs(<<"-", "b", "c">>),
        e \in EndArgs}

\* main.c:67-90: the defaults; argv[i] for i >= 1 is argv[i] here, argc is Len(argv) + 1
ArgsInit ==
    /\ StatsIdle /\ num_runs = 0
    /\ KernelIdle
    /\ argv \in CommandLines
    /\ argi = 1
    /\ mA_rows = A_ROW /\ mAB_cols_rows = A_COL_B_ROW /\ mB_cols = B_COL
    /\ nruns = DefaultRuns
    /\ impl = "NULL" /\ impl_str = "NULL" /\ help = FALSE
    /\ calls = << >>
    /\ apc = "parse"

\* i < argc, and ++i < argc holds for the option at argv[i]
InLoop == apc = "parse" /\ argi <= Len(argv)
HasValue == argi + 1 <= Len(argv)

\* main.c:93-104
ParseImpl ==
    /\ InLoop /\ argv[argi] \in OptImpl /\ HasValue
    /\ impl' = (CASE argv[argi + 1] = NameNaive -> "impl_mmult_naive"
                  [] argv[argi + 1] = NameOpt -> "impl_mmult_opt"
                  [] OTHER -> "NULL")
    /\ impl_str' = (CASE argv[argi + 1] = NameNaive -> "mmult_naive"
                      [] argv[argi + 1] = NameOpt -> "mmult_opt"
                      [] OTHER -> "unknown")
    /\ argi' = argi + 2
    /\ UNCHANGED <<apc, argv, mA_rows, mAB_cols_rows, mB_cols, nruns, help, calls>>
    /\ UNCHANGED <<svars, kvars>>

\* main.c:107-111
ParseRowsA ==
    /\ InLoop /\ argv[argi] \in OptRowsA /\ HasValue
    /\ mA_rows' = Atoi(argv[argi + 1])
    /\ argi' = argi + 2
    /\ UNCHANGED <<apc, argv, mAB_cols_rows, mB_cols, nruns, impl, impl_str, help, calls>>
    /\ UNCHANGED <<svars, kvars>>

\* main.c:114-118
ParseShared ==
    /\ InLoop /\ argv[argi] \in OptShared /\ HasValue
    /\ mAB_cols_rows' = Atoi(argv[argi + 1])
    /\ argi' = argi + 2
    /\ UNCHANGED <<apc, argv, mA_rows, mB_cols, nruns, impl, impl_str, help, calls>>
    /\ UNCHANGED <<svars, kvars>>

\* main.c:121-125
ParseColsB ==
    /\ InLoop /\ argv[argi] \in OptColsB /\ HasValue
    /\ mB_cols' = Atoi(argv[argi + 1])
    /\ argi' = argi + 2
    /\ UNCHANGED <<apc, argv, mA_rows, mAB_cols_rows, nruns, impl, impl_str, help, calls>>
    /\ UNCHANGED <<svars, kvars>>

\* main.c:128-133
ParseRuns ==
    /\ InLoop /\ argv[argi] \in OptRuns /\ HasValue
    /\ nruns' = Atoi(argv[argi + 1])
    /\ argi' = argi + 2
    /\ UNCHANGED <<apc, argv, mA_rows, mAB_cols_rows, mB_cols, impl, impl_str, help, calls>>
    /\ UNCHANGED <<svars, kvars>>

\* main.c:135-155: nstdevs, nthreads and cpu are not part of this state
ParseOther ==
    /\ InLoop /\ argv[argi] \in OptOther /\ HasValue
    /\ argi' = argi + 2
    /\ UNCHANGED <<apc, argv, mA_rows, mAB_cols_rows, mB_cols, nruns, impl, impl_str,
                   help, calls>>
    /\ UNCHANGED <<svars, kvars>>

\* main.c:94, 108, 115, 122, 129, 136, 144, 151: assert (++i < argc) fails
ParseAssert ==
    /\ InLoop /\ argv[argi] \in OptWithValue /\ ~HasValue
    /\ apc' = "aborted"
    /\ UNCHANGED <<argv, argi, mA_rows, mAB_cols_rows, mB_cols, nruns, impl, impl_str,
                   help, calls>>
    /\ UNCHANGED <<svars, kvars>>

\* main.c:158-162
ParseHelp ==
    /\ InLoop /\ argv[argi] \in OptHelp
    /\ help' = TRUE
    /\ argi' = argi + 1
    /\ UNCHANGED <<apc, argv, mA_rows, mAB_cols_rows, mB_cols, nruns, impl, impl_str, calls>>
    /\ UNCHANGED <<svars, kvars>>

\* main.c:91, 163: a token that is no option is passed over
ParseSkip ==
    /\ InLoop /\ argv[argi] \notin (OptWithValue \cup OptHelp)
    /\ argi' = argi + 1
    /\ UNCHANGED <<apc, argv, mA_rows, mAB_cols_rows, mB_cols, nruns, impl, impl_str,
                   help, calls>>
    /\ UNCHANGED <<svars, kvars>>

\* main.c:165-194: the usage text and exit(help ? 0 : 1)
Usage ==
    /\ apc = "parse" /\ argi > Len(argv)
    /\ help \/ impl = "NULL"
    /\ apc' = (IF help THEN "exit_0" ELSE "exit_1")
    /\ UNCHANGED <<argv, argi, mA_rows, mAB_cols_rows, mB_cols, nruns, impl, impl_str,
                   help, calls>>
    /\ UNCHANGED <<svars, kvars>>

\* main.c:271-277, 289-292: args_ref and args carry the same dimensions and size
KernelArgs == [rowsA |-> mA_rows, colsA |-> mAB_cols_rows, colsB |-> mB_cols,
               size |-> data_size]

\* main.c:196-283: nothing between the option loop and impl_ref(&args_ref)
\* looks at the dimensions
DispatchRef ==
    /\ apc = "parse" /\ argi > Len(argv)
    /\ ~(help \/ impl = "NULL")
    /\ calls' = <<[kernel |-> "impl_ref", args |-> KernelArgs]>>
    /\ apc' = "loop"
    /\ UNCHANGED <<argv, argi, mA_rows, mAB_cols_rows, mB_cols, nruns, impl, impl_str, help>>
    /\ UNCHANGED <<svars, kvars>>

\* the invocations of the timed loop so far (i of main.c:304)
TimedRuns == Len(calls) - 1

\* main.c:304-309: (*impl)(&args), at most MaxInvocations times in this model
DispatchImpl ==
    /\ apc = "loop"
    /\ TimedRuns < nruns /\ TimedRuns < MaxInvocations
    /\ calls' = Append(calls, [kernel |-> impl, args |-> KernelArgs])
    /\ UNCHANGED <<apc, argv, argi, mA_rows, mAB_cols_rows, mB_cols, nruns, impl, impl_str,
                   help>>
    /\ UNCHANGED <<svars, kvars>>

\* main.c:304, 310: the timed loop ends
LoopExit ==
    /\ apc = "loop"
    /\ ~(TimedRuns < nruns /\ TimedRuns < MaxInvocations)
    /\ apc' = "verify"
    /\ UNCHANGED <<argv, argi, mA_rows, mAB_cols_rows, mB_cols, nruns, impl, impl_str,
                   help, calls>>
    /\ UNCHANGED <<svars, kvars>>

ArgsNext ==
    \/ ParseImpl
    \/ ParseRowsA
    \/ ParseShared
    \/ ParseColsB
    \/ ParseRuns
    \/ ParseOther
    \/ ParseAssert
    \/ ParseHelp
    \/ ParseSkip
    \/ Usage
    \/ DispatchRef
    \/ DispatchImpl
    \/ LoopExit

SpecArgs == ArgsInit /\ [][ArgsNext]_vars


(***************************************************************************)
(* Properties of the statistics loop.                                      *)
(***************************************************************************)

Inactive == Idx \ Active

AllIdentical == \A i, j \in Idx : runtimes[i] = runtimes[j]

\* the deviation of run time x from the reported average
Deviation(x) == IF x > avg THEN x - avg ELSE avg - x

\* the mean and the standard deviation of the samples in A, in the integer
\* arithmetic of the report (truncating division and square root)
MeanOf(A) == SumOver(A, runtimes) \div Cardinality(A)

StdOf(A) ==
    Isqrt(SumOver(A, [i \in Idx |-> SqDev(runtimes[i], MeanOf(A))]) \div Cardinality(A))

\* the masked counts of all printed passes, summed
RECURSIVE SumMasked(_)
SumMasked(lines) ==
    IF lines = << >> THEN 0 ELSE Head(lines).masked + SumMasked(Tail(lines))

\* The fixed point the loop stops at, when at least one sample is left: the
\* average is the mean of the active samples and none of them is an outlier.
StatsFixedPoint ==
    (spc = "done" /\ Active # {}) =>
        /\ avg = MeanOf(Active)
        /\ \A i \in Active : Deviation(runtimes[i]) <= nstd * StdOf(Active)

\* C2: when the rejection loop stops, the reported average is the mean over
\* exactly the samples still active and no active sample deviates from it by
\* more than k standard deviations of the active samples; for the samples
\* {100,101,99,102,100,9} and k = 2 exactly the sample 9 is masked and the
\* average is the mean of the other five.
C2_AverageOverActive ==
    spc = "done" =>
        /\ Active # {}
        /\ StatsFixedPoint
        /\ (runtimes = ExampleRuntimes /\ nstd = 2) =>
               (Inactive = {5} /\ avg = (100 + 101 + 99 + 102 + 100) \div 5)

\* C3: whenever the mean or the standard deviation is computed, at least one
\* sample is active: the divisors avg_n and std_n are never zero.
C3_DivisorNeverZero ==
    /\ spc = "avg_div" => (avg_n > 0 /\ Active # {})
    /\ spc = "std_div" => (std_n > 0 /\ Active # {})

\* C4: a pass whose computed standard deviation is 0 masks no sample and is
\* the last pass of the loop.
C4_ZeroStdMasksNothing ==
    [][(spc = "mask" /\ std = 0) =>
          (runtimes_mask' = runtimes_mask /\ spc' = "done")]_vars

\* C5 as stated: on termination n_msked is the total number of inactive
\* samples.
C5_MaskedIsTotal ==
    spc = "done" => n_msked = Cardinality(Inactive)

\* C5 as amended: n_msked is the count of one pass; on termination it is 0,
\* and the number of inactive samples is the sum of the masked counts printed
\* for the passes.
C5_MaskedPerPass ==
    /\ spc = "done" => n_msked = 0
    /\ spc \in {"sum", "done"} => SumMasked(printed) = Cardinality(Inactive)
    /\ spc \in {"sum", "done"} /\ printed # << >> =>
           printed[Len(printed)].masked = n_msked

C5_Witness ==
    /\ spc = "done"
    /\ Len(printed) = 3
    /\ Cardinality(Inactive) = 2
    /\ \E i \in Inactive : runtimes[i] < printed[1].avg

\* C9: N identical samples give one pass, no masked sample and an average
\* equal to the common value, for every rejection multiplier.
C9_IdenticalSamples ==
    AllIdentical =>
        /\ spc # "sigfpe"
        /\ n_stats <= 1
        /\ Active = Idx
        /\ spc # "done" => ENABLED StatsNext
        /\ spc = "done" => (n_stats = 1 /\ n_msked = 0 /\ avg = runtimes[0]
                             /\ Len(printed) = 1 /\ printed[1].std = 0)

C9_Witness ==
    /\ spc = "done"
    /\ AllIdentical
    /\ num_runs >= 3
    /\ runtimes[0] >= 2
    /\ nstd = 0

LogicalCells == 0 .. (rowsA * colsB - 1)

InOpt == kpc \in {"opt_zero", "opt_tile", "opt_ret"}

\* the product cell (r, c) accumulated from +0 over the first n values of k,
\* in float: what one invocation on a zeroed buffer has to store
RECURSIVE Product(_, _, _)
Product(r, c, n) ==
    IF n = 0 THEN 0
    ELSE FAdd(Product(r, c, n - 1),
              FMul(input_a[r * colsA + (n - 1)], input_b[(n - 1) * colsB + c]))

\* Every access of impl_mmult_opt stays inside the logical matrices.
OptAccessInBounds ==
    InOpt =>
        /\ acc.w \subseteq LogicalCells
        /\ acc.ra \subseteq 0 .. (rowsA * colsA - 1)
        /\ acc.rb \subseteq 0 .. (colsA * colsB - 1)

\* impl_mmult_opt leaves every cell past the logical output as it was.
OptKeepsCellsPastOutput ==
    InOpt => \A o \in DOMAIN output : o \notin LogicalCells =>
                 output[o] = (IF o < size THEN junk ELSE GuardWord)

\* C1: for every dimension triple and every pair of inputs the output of
\* impl_mmult_opt matches the output of impl_ref element-wise within 1e-5.
C1_OptMatchesRef ==
    kpc = "opt_ret" =>
        \A o \in LogicalCells : WithinTol(Load(ref, o), Load(output, o))

\* C6: for any dimensions >= 1 impl_mmult_opt writes only output offsets below
\* rowsA*colsB and reads only A offsets below rowsA*colsA and B offsets below
\* colsA*colsB, so the guard cells still hold the sentinel after every
\* invocation.
C6_GuardsIntact ==
    /\ OptAccessInBounds
    /\ kpc = "opt_ret" => CheckFloatGuard

\* C8: after any number of consecutive invocations on the same inputs and the
\* same output buffer, the output is that of one invocation on a fresh
\* buffer, whatever the buffer held before.
C8_OutputIndependent ==
    kpc = "opt_ret" =>
        \A r \in 0 .. (rowsA - 1), c \in 0 .. (colsB - 1) :
            Load(output, r * colsB + c) = Product(r, c, colsA)

C8_Witness ==
    /\ kpc = "opt_ret"
    /\ run = 1
    /\ rowsA = BLOCK_SIZE + 1 /\ colsA = BLOCK_SIZE + 1 /\ colsB = BLOCK_SIZE + 1
    /\ IntOfBits(output[0]) > 2
    /\ output[0] # junk

(***************************************************************************)
(* Properties of the dispatch.                                             *)
(***************************************************************************)

\* the elements an r x c matrix needs as the kernels see it: the kernels hold
\* the dimensions as size_t (include/types.h:17-19), so a negative int is a
\* dimension above 2^63 and no buffer holds the matrix
NeedsMoreThan(r, c, cells) ==
    IF r = 0 \/ c = 0 THEN FALSE
    ELSE IF r < 0 \/ c < 0 THEN TRUE
    ELSE r * c > cells

Oversized(a) ==
    \/ NeedsMoreThan(a.rowsA, a.colsA, Src1Cells)
    \/ NeedsMoreThan(a.colsA, a.colsB, Src2Cells)
    \/ NeedsMoreThan(a.rowsA, a.colsB, a.size)

\* C7: no kernel (impl_ref or the selected one) is ever dispatched with
\* dimensions that need more elements than its input buffers or its output
\* buffer hold; such a run stops before the first dispatch.
C7_NoOversizeDispatch ==
    \A n \in 1 .. Len(calls) : ~Oversized(calls[n].args)

====
